---- MODULE Spec2Model ----
(***************************************************************************)
(* Model of src/Misc/interface/src/App.tsx: the BCAnalysisVisualizer       *)
(* component.  It generates a synthetic dataset once on mount, keeps a     *)
(* view selector and a season filter, and on every render derives the      *)
(* filtered sequence, the sorted chart sequences, the MAC statistics and   *)
(* the data summary.                                                       *)
(*                                                                         *)
(* Conventions.                                                            *)
(*  - A JavaScript number that the code computes with real arithmetic is   *)
(*    an extended rational [n, d]: d > 0 is the finite value n/d in        *)
(*    lowest terms, d = 0 with n = 0 is NaN, d = 0 with n = 1 or -1 is     *)
(*    +Infinity or -Infinity.  Rounding of doubles is not modelled.        *)
(*  - A time value is in whole SECONDS since 1970-01-01T00:00:00Z (the     *)
(*    code's milliseconds divided by 1000; every time value of the         *)
(*    program is a whole second, and milliseconds do not fit TLC's         *)
(*    integers).                                                           *)
(*  - A date string "YYYY-MM-DD" is the record [year, month, day] that it  *)
(*    spells.                                                              *)
(***************************************************************************)
EXTENDS Integers, Sequences, FiniteSets, TLC

VARIABLES tz, data, loading, error, view, seasonFilter, effectRan, screen

vars == <<tz, data, loading, error, view, seasonFilter, effectRan, screen>>

(***************************************************************************)
(* Bounds of the model.                                                    *)
(***************************************************************************)
\* Math.random() returns k / RandomLevels for some k in 0 .. RandomLevels-1.
RandomLevels == 3

\* Longest dataset of the aggregation specification.
MaxLen == 3

(***************************************************************************)
(* JavaScript numbers.                                                     *)
(***************************************************************************)
Abs(x) == IF x < 0 THEN -x ELSE x

Sign(x) == IF x < 0 THEN -1 ELSE IF x > 0 THEN 1 ELSE 0

RECURSIVE GCD(_, _)
GCD(a, b) == IF b = 0 THEN a ELSE GCD(b, a % b)

\* The number n/d: lowest terms, positive denominator; d = 0 gives NaN or an infinity.
Num(n, d) ==
  IF d = 0 THEN [n |-> Sign(n), d |-> 0]
  ELSE LET g == GCD(Abs(n), Abs(d))
       IN  [n |-> Sign(d) * (n \div g), d |-> Abs(d) \div g]

Whole(k) == [n |-> k, d |-> 1]

NaN == [n |-> 0, d |-> 0]

IsNaN(x) == x.d = 0 /\ x.n = 0

IsFinite(x) == x.d > 0

\* a + b
NumAdd(a, b) ==
  IF a.d = 0 \/ b.d = 0
  THEN IF IsNaN(a) \/ IsNaN(b) THEN NaN
       ELSE IF a.d = 0 /\ b.d = 0
            THEN (IF a.n = b.n THEN a ELSE NaN)
            ELSE (IF a.d = 0 THEN a ELSE b)
  ELSE LET g == GCD(a.d, b.d)
       IN  Num(a.n * (b.d \div g) + b.n * (a.d \div g), a.d * (b.d \div g))

NumNeg(a) == [n |-> -a.n, d |-> a.d]

NumSub(a, b) == NumAdd(a, NumNeg(b))

\* a * b
NumMul(a, b) ==
  IF a.d = 0 \/ b.d = 0
  THEN Num(a.n * b.n, 0)
  ELSE LET g1 == GCD(Abs(a.n), b.d)
           g2 == GCD(Abs(b.n), a.d)
           h1 == IF g1 = 0 THEN 1 ELSE g1
           h2 == IF g2 = 0 THEN 1 ELSE g2
       IN  Num((a.n \div h1) * (b.n \div h2), (a.d \div h2) * (b.d \div h1))

\* a / b: 0/0 is NaN, x/0 is an infinity.
NumDiv(a, b) ==
  IF IsNaN(a) \/ IsNaN(b) THEN NaN
  ELSE IF a.d = 0 /\ b.d = 0 THEN NaN
  ELSE IF a.d = 0 THEN Num(a.n * (IF b.n < 0 THEN -1 ELSE 1), 0)
  ELSE IF b.d = 0 THEN Whole(0)
  ELSE IF b.n = 0 THEN Num(a.n, 0)
  ELSE NumMul(a, Num(b.d, b.n))

\* a < b: false when either is NaN; an infinity compares by its sign.
NumLess(a, b) ==
  IF IsNaN(a) \/ IsNaN(b) THEN FALSE
  ELSE IF a.d = 0 /\ b.d = 0 THEN a.n < b.n
  ELSE IF a.d = 0 THEN a.n < 0
  ELSE IF b.d = 0 THEN b.n > 0
  ELSE a.n * b.d < b.n * a.d

RECURSIVE Pow10(_)
Pow10(k) == IF k = 0 THEN 1 ELSE 10 * Pow10(k - 1)

\* Number.prototype.toFixed(digits): the text "NaN" or "Infinity", or the decimal
\* numeral.  A negative x gives a leading "-" (`negative`) and is rounded as -x
\* is; `scaled` is the integer the digits spell without the decimal point: the
\* integer nearest to |x| * 10^digits, the larger one on a tie.
toFixed(x, digits) ==
  IF IsNaN(x) THEN [text |-> "NaN", negative |-> FALSE, scaled |-> 0]
  ELSE IF x.d = 0 THEN [text |-> "Infinity", negative |-> x.n < 0, scaled |-> 0]
  ELSE [text     |-> "decimal",
        negative |-> x.n < 0,
        scaled   |-> (2 * Abs(x.n) * Pow10(digits) + x.d) \div (2 * x.d)]

(***************************************************************************)
(* The Date built-ins the generator calls (ECMAScript Date semantics).     *)
(***************************************************************************)
SecondsPerDay == 24 * 60 * 60

\* Day(t) and TimeWithinDay(t).
Day(t) == t \div SecondsPerDay

TimeWithinDay(t) == t % SecondsPerDay

\* The civil date [year, month (1..12), day] of a day number (days since 1970-01-01).
CivilFromDays(days) ==
  LET z   == days + 719468
      era == z \div 146097
      doe == z - era * 146097
      yoe == (doe - doe \div 1460 + doe \div 36524 - doe \div 146096) \div 365
      doy == doe - (365 * yoe + yoe \div 4 - yoe \div 100)
      mp  == (5 * doy + 2) \div 153
      d   == doy - (153 * mp + 2) \div 5 + 1
      m   == IF mp < 10 THEN mp + 3 ELSE mp - 9
  IN  [year  |-> yoe + era * 400 + (IF m <= 2 THEN 1 ELSE 0),
       month |-> m,
       day   |-> d]

\* The day number of a civil date (month 1..12); day may lie outside the month.
DaysFromCivil(year, month, day) ==
  LET y   == IF month <= 2 THEN year - 1 ELSE year
      era == y \div 400
      yoe == y - era * 400
      mp  == IF month > 2 THEN month - 3 ELSE month + 9
      doy == (153 * mp + 2) \div 5 + day - 1
      doe == yoe * 365 + yoe \div 4 - yoe \div 100 + doy
  IN  era * 146097 + doe - 719468

\* MakeDay(year, month0, date) with a 0-based month, as Date.prototype.setDate uses it.
MakeDay(year, month0, date) ==
  DaysFromCivil(year + month0 \div 12, (month0 % 12) + 1, 1) + date - 1

\* The host's time zones: standard offset in seconds east of UTC and, where the
\* zone observes daylight saving time in 2022, the UTC instants it starts and ends.
UtcInstant(year, month, day, hour) ==
  DaysFromCivil(year, month, day) * SecondsPerDay + hour * 60 * 60

TimeZones ==
  { [name |-> "UTC", std |-> 0, dst |-> FALSE, dstStart |-> 0, dstEnd |-> 0],
    [name |-> "Africa/Addis_Ababa", std |-> 3 * 60 * 60, dst |-> FALSE,
     dstStart |-> 0, dstEnd |-> 0],
    [name |-> "Europe/Berlin", std |-> 60 * 60, dst |-> TRUE,
     dstStart |-> UtcInstant(2022, 3, 27, 1), dstEnd |-> UtcInstant(2022, 10, 30, 1)],
    [name |-> "America/New_York", std |-> -(5 * 60 * 60), dst |-> TRUE,
     dstStart |-> UtcInstant(2022, 3, 13, 7), dstEnd |-> UtcInstant(2022, 11, 6, 6)] }

InDst(zone, t) == zone.dst /\ zone.dstStart <= t /\ t < zone.dstEnd

\* LocalTime(t): the local time value of the UTC time value t.
LocalTime(zone, t) == t + zone.std + (IF InDst(zone, t) THEN 60 * 60 ELSE 0)

\* UTC(t): the UTC time value of a local time value (a repeated or skipped wall
\* time is read with the offset in force before the transition).
UTC(zone, tl) ==
  LET asDst == tl - zone.std - 60 * 60
      asStd == tl - zone.std
  IN  IF InDst(zone, asDst) THEN asDst ELSE asStd

\* new Date('YYYY-MM-DD').getTime(): a date-only string is UTC midnight.
DateParse(date) == DaysFromCivil(date.year, date.month, date.day) * SecondsPerDay

\* date.getDate(): day of the month in local time.
getDate(zone, t) == CivilFromDays(Day(LocalTime(zone, t))).day

\* date.getMonth(): 0-based month in local time.
getMonth(zone, t) == CivilFromDays(Day(LocalTime(zone, t))).month - 1

\* date.setDate(dayValue): replaces the day of the month of the local time.
setDate(zone, t, dayValue) ==
  LET tl == LocalTime(zone, t)
      c  == CivilFromDays(Day(tl))
  IN  UTC(zone, MakeDay(c.year, c.month - 1, dayValue) * SecondsPerDay
                 + TimeWithinDay(tl))

\* date.toISOString().split('T')[0]: the UTC calendar date.
toISODate(t) == CivilFromDays(Day(t))

(***************************************************************************)
(* generateSampleData.                                                     *)
(***************************************************************************)
startDate == DateParse([year |-> 2022, month |-> 1, day |-> 1])

sampleSize == 103

seasons == <<"Dry Season", "Belg Rainy Season", "Kiremt Rainy Season">>

\* Object.entries(seasonMonths), in insertion order.
seasonMonths ==
  << <<"Dry Season", <<10, 11, 12, 1, 2>> >>,
     <<"Belg Rainy Season", <<3, 4, 5>> >>,
     <<"Kiremt Rainy Season", <<6, 7, 8, 9>> >> >>

includes(arr, x) == \E k \in DOMAIN arr : arr[k] = x

\* The season loop: the first entry whose months include the month, '' if none.
RECURSIVE seasonFrom(_, _)
seasonFrom(k, month) ==
  IF k > Len(seasonMonths) THEN ""
  ELSE IF includes(seasonMonths[k][2], month) THEN seasonMonths[k][1]
  ELSE seasonFrom(k + 1, month)

\* A variant of seasonOf whose loop starts at the second entry of the table.
seasonOfFromSecond(month) == seasonFrom(2, month)

seasonOf(month) == seasonFrom(1, month)

\* let seasonalFactor = 1.0, then the two ifs in their order (the later one wins).
seasonalFactorOf(season) ==
  LET initial  == Whole(1)
      afterDry == IF season = "Dry Season" THEN Num(12, 10) ELSE initial
  IN  IF season = "Belg Rainy Season" THEN Num(8, 10) ELSE afterDry

\* A value Math.random() can return: k / RandomLevels, in [0, 1).
Uniform(k) == Num(k, RandomLevels)

\* base * (1 + (u - 0.5) * spread)
Noisy(base, u, spread) ==
  NumMul(base, NumAdd(Whole(1), NumMul(NumSub(u, Num(1, 2)), spread)))

\* A variant of ecFTIROf whose noise term is (u - 0.5) * 2 instead of * 0.4.
ecFTIROfWideNoise(baseValue, u) ==
  Noisy(NumMul(baseValue, Num(9, 10)), u, Whole(2))

ecFTIROf(baseValue, u) == Noisy(NumMul(baseValue, Num(9, 10)), u, Num(4, 10))

redBCcOf(baseValue, seasonalFactor, u) ==
  Noisy(NumMul(baseValue, seasonalFactor), u, Num(3, 10))

fabsOf(baseValue, u) == Noisy(NumMul(baseValue, Whole(5)), u, Num(5, 10))

\* The streams of results Math.random() gives in one session: the n-th call
\* (n = 0, 1, ...) of stream <<a, b>> returns Uniform((a + b * n) % RandomLevels).
RandomStreams == (0 .. RandomLevels - 1) \X (0 .. RandomLevels - 1)

random(stream, n) == Uniform((stream[1] + stream[2] * n) % RandomLevels)

\* One iteration of the loop: the record pushed for index i (0-based).
DataPoint(zone, stream, i) ==
  LET date           == setDate(zone, startDate, getDate(zone, startDate) + i * 3)
      month          == getMonth(zone, date) + 1
      season         == seasonOf(month)
      baseValue      == NumAdd(Whole(2), NumMul(random(stream, 4 * i), Whole(8)))
      seasonalFactor == seasonalFactorOf(season)
      redBCc         == redBCcOf(baseValue, seasonalFactor, random(stream, 4 * i + 1))
      ecFTIR         == ecFTIROf(baseValue, random(stream, 4 * i + 2))
      fabs           == fabsOf(baseValue, random(stream, 4 * i + 3))
      mac            == NumDiv(fabs, ecFTIR)
  IN  [date      |-> toISODate(date),
       timestamp |-> date,
       month     |-> month,
       season    |-> season,
       redBCc    |-> redBCc,
       ecFTIR    |-> ecFTIR,
       fabs      |-> fabs,
       mac       |-> mac]

generateSampleData(zone, stream) ==
  [k \in 1 .. sampleSize |-> DataPoint(zone, stream, k - 1)]

(***************************************************************************)
(* Array helpers.                                                          *)
(***************************************************************************)
\* A variant of compare with the operands exchanged: key(b) - key(a).
compareExchanged(a, b) == b.key - a.key

\* The comparators of the code, (a, b) => key(a) - key(b), on elements paired
\* with their keys.
compare(a, b) == a.key - b.key

\* The merge step of a stable merge sort: of two sorted runs, every element of
\* the left run goes before the elements of the right run that do not compare
\* smaller than it (two runs already in order are just joined).
merge(left, right) ==
  LET posLeft  == [i \in DOMAIN left |->
                     i + Cardinality({j \in DOMAIN right : compare(left[i], right[j]) > 0})]
      posRight == [j \in DOMAIN right |->
                     j + Cardinality({i \in DOMAIN left : compare(left[i], right[j]) <= 0})]
  IN  IF compare(left[Len(left)], right[1]) <= 0
      THEN left \o right
      ELSE [p \in 1 .. Len(left) + Len(right) |->
              IF \E i \in DOMAIN left : posLeft[i] = p
              THEN left[CHOOSE i \in DOMAIN left : posLeft[i] = p]
              ELSE right[CHOOSE j \in DOMAIN right : posRight[j] = p]]

\* Array.prototype.sort(compare): a stable sort (merge sort of arr[lo .. hi]).
RECURSIVE sortRange(_, _, _)
sortRange(arr, lo, hi) ==
  IF lo > hi THEN <<>>
  ELSE IF lo = hi THEN <<arr[lo]>>
  ELSE LET mid == (lo + hi) \div 2
       IN  merge(sortRange(arr, lo, mid), sortRange(arr, mid + 1, hi))

\* keyed: the elements paired with their keys, [key, value].
sort(keyed) ==
  LET sorted == sortRange(keyed, 1, Len(keyed))
  IN  [k \in DOMAIN sorted |-> sorted[k].value]

\* values.reduce((sum, val) => sum + val, 0): 0 + values[1] + ... + values[n].
\* The additions are exact, so the sum is taken over halves of the range rather
\* than one element at a time (the same value, with a shallow recursion).
RECURSIVE sumRange(_, _, _)
sumRange(values, lo, hi) ==
  IF lo > hi THEN Whole(0)
  ELSE IF lo = hi THEN values[lo]
  ELSE LET mid == (lo + hi) \div 2
       IN  NumAdd(sumRange(values, lo, mid), sumRange(values, mid + 1, hi))

reduceSum(values) == NumAdd(Whole(0), sumRange(values, 1, Len(values)))

\* arr.map(item => item.mac)
macOf(arr) == [k \in DOMAIN arr |-> arr[k].mac]

(***************************************************************************)
(* The render function of BCAnalysisVisualizer.                            *)
(***************************************************************************)
Views == {"scatter", "timeseries", "mac"}

SeasonFilters == {"all"} \cup {seasons[k] : k \in DOMAIN seasons}

\* The error state: null, or a message string.
Null == [isNull |-> TRUE, text |-> ""]

Message(text) == [isNull |-> FALSE, text |-> text]

\* JavaScript truthiness of string | null.
Truthy(e) == ~e.isNull /\ e.text # ""

\* A variant of filteredData without the 'all' case: data.filter(item =>
\* item.season === seasonFilter).
filteredDataBySeasonOnly(d, f) == SelectSeq(d, LAMBDA item : item.season = f)

\* data.filter(item => seasonFilter === 'all' || item.season === seasonFilter)
filteredData(d, f) == SelectSeq(d, LAMBDA item : f = "all" \/ item.season = f)

\* The elements with the sort keys a.timestamp, and new Date(a.date).getTime().
timestampKey(arr) ==
  [k \in DOMAIN arr |-> [key |-> arr[k].timestamp, value |-> arr[k]]]

dateKey(arr) ==
  [k \in DOMAIN arr |-> [key |-> DateParse(arr[k].date), value |-> arr[k]]]

\* [...filteredData].sort(compare): the sorted copy, and filteredData as the call
\* leaves it.
sortCopy(fd, keyed) ==
  [sortedData |-> sort(keyed), filteredData |-> fd]

renderScatterPlot(fd, f) ==
  [chart |-> [name   |-> "scatter",
              legend |-> IF f = "all" THEN "All Seasons" ELSE f,
              data   |-> fd],
   filteredData |-> fd]

renderTimeSeriesPlot(fd) ==
  LET s == sortCopy(fd, timestampKey(fd))
  IN  [chart |-> [name |-> "timeseries", data |-> s.sortedData],
       filteredData |-> s.filteredData]

\* The overall mean: sum of the values over their number.
avgMACOf(macValues) == NumDiv(reduceSum(macValues), Whole(Len(macValues)))

\* A variant of seasonalEntry without the length guard: every season gets an
\* entry.
seasonalEntryUnguarded(macData, season) ==
  LET seasonData == macOf(SelectSeq(macData, LAMBDA item : item.season = season))
  IN  << [season |-> season,
          avg    |-> toFixed(NumDiv(reduceSum(seasonData),
                                    Whole(Len(seasonData))), 2),
          count  |-> Len(seasonData)] >>

\* One pass of seasons.forEach: the entry added for a season, if any.
seasonalEntry(macData, season) ==
  LET seasonData == macOf(SelectSeq(macData, LAMBDA item : item.season = season))
  IN  IF Len(seasonData) > 0
      THEN << [season |-> season,
               avg    |-> toFixed(NumDiv(reduceSum(seasonData),
                                         Whole(Len(seasonData))), 2),
               count  |-> Len(seasonData)] >>
      ELSE <<>>

\* Object.entries(seasonalMACs): the entries in insertion order.
RECURSIVE seasonalMACsFrom(_, _)
seasonalMACsFrom(macData, k) ==
  IF k > Len(seasons) THEN <<>>
  ELSE seasonalEntry(macData, seasons[k]) \o seasonalMACsFrom(macData, k + 1)

\* sortedData[k]?.date of an empty array.
undefinedDate == [year |-> 0, month |-> 0, day |-> 0]

renderMACAnalysis(fd) ==
  LET macData   == [k \in DOMAIN fd |->
                      [date |-> fd[k].date, mac |-> fd[k].mac, season |-> fd[k].season]]
      macValues == macOf(macData)
      avgMAC    == avgMACOf(macValues)
      s         == sortCopy(macData, dateKey(macData))
      sorted    == s.sortedData
      first     == IF Len(sorted) > 0 THEN sorted[1].date ELSE undefinedDate
      last      == IF Len(sorted) > 0 THEN sorted[Len(sorted)].date ELSE undefinedDate
  IN  [chart |-> [name         |-> "mac",
                  overall      |-> toFixed(avgMAC, 2),
                  avgMAC       |-> avgMAC,
                  n            |-> Len(macValues),
                  seasonalMACs |-> seasonalMACsFrom(macData, 1),
                  data         |-> sorted,
                  averageLine  |-> << [date |-> first, mac |-> avgMAC],
                                      [date |-> last, mac |-> avgMAC] >>],
       filteredData |-> fd]

\* One line of the seasonal distribution of the summary panel.
distributionEntry(d, season) ==
  LET count == Len(SelectSeq(d, LAMBDA item : item.season = season))
  IN  [season  |-> season,
       count   |-> count,
       percent |-> toFixed(NumMul(NumDiv(Whole(count), Whole(Len(d))), Whole(100)), 1)]

\* A variant of dataSummary whose distribution is taken over the current
\* selection instead of the whole dataset.
dataSummaryOfSelection(d, fd) ==
  [total        |-> Len(d),
   selected     |-> Len(fd),
   distribution |-> [k \in DOMAIN seasons |-> distributionEntry(fd, seasons[k])]]

\* The summary panel.
dataSummary(d, fd) ==
  [total        |-> Len(d),
   selected     |-> Len(fd),
   distribution |-> [k \in DOMAIN seasons |-> distributionEntry(d, seasons[k])]]

noChart == [name |-> "none"]

noSummary == [total |-> 0, selected |-> 0, distribution |-> <<>>]

\* What one render of the component returns.
BCAnalysisVisualizer(d, ld, err, v, f) ==
  LET fd == filteredData(d, f)
  IN  IF ld
      THEN [kind |-> "loading", text |-> "Loading data...", chart |-> noChart,
            filteredData |-> fd, summary |-> noSummary]
      ELSE IF Truthy(err)
      THEN [kind |-> "error", text |-> err.text, chart |-> noChart,
            filteredData |-> fd, summary |-> noSummary]
      ELSE LET r == IF v = "scatter" THEN renderScatterPlot(fd, f)
                    ELSE IF v = "timeseries" THEN renderTimeSeriesPlot(fd)
                    ELSE IF v = "mac" THEN renderMACAnalysis(fd)
                    ELSE [chart |-> noChart, filteredData |-> fd]
           IN  [kind |-> "main", text |-> "", chart |-> r.chart,
                filteredData |-> r.filteredData,
                summary |-> dataSummary(d, r.filteredData)]

(***************************************************************************)
(* The component as a state machine.                                       *)
(***************************************************************************)
\* What the catch branch can receive.  Nothing in generateSampleData throws, so
\* the value is an input: an Error with a message, an Error without one
\* (new Error() and new Error("") both have message ""), or a value that is no
\* Error.
ThrownValues ==
  { [isError |-> TRUE, message |-> "Invalid time value"],
    [isError |-> TRUE, message |-> ""],
    [isError |-> FALSE, message |-> ""] }

Init ==
  /\ tz \in TimeZones
  /\ data = <<>>
  /\ loading = TRUE
  /\ error = Null
  /\ view = "scatter"
  /\ seasonFilter = "all"
  /\ effectRan = FALSE
  /\ screen = BCAnalysisVisualizer(data, loading, error, view, seasonFilter)

\* The mount effect, try branch: the data is generated and stored.
useEffectGenerated(stream) ==
  /\ ~effectRan
  /\ data' = generateSampleData(tz, stream)
  /\ loading' = FALSE
  /\ effectRan' = TRUE
  /\ UNCHANGED <<tz, error, view, seasonFilter>>
  /\ screen' = BCAnalysisVisualizer(data', loading', error', view', seasonFilter')

\* The mount effect, catch branch.
useEffectCaught(err) ==
  /\ ~effectRan
  /\ error' = Message(IF err.isError THEN err.message
                      ELSE "An unknown error occurred")
  /\ loading' = FALSE
  /\ effectRan' = TRUE
  /\ UNCHANGED <<tz, data, view, seasonFilter>>
  /\ screen' = BCAnalysisVisualizer(data', loading', error', view', seasonFilter')

\* A variant of setView that also puts the season filter back to 'all'.
setViewResettingFilter(v) ==
  /\ screen.kind = "main"
  /\ v # view
  /\ view' = v
  /\ seasonFilter' = "all"
  /\ UNCHANGED <<tz, data, loading, error, effectRan>>
  /\ screen' = BCAnalysisVisualizer(data', loading', error', view', seasonFilter')

\* onChange of the view selector.
setView(v) ==
  /\ screen.kind = "main"
  /\ v # view
  /\ view' = v
  /\ UNCHANGED <<tz, data, loading, error, seasonFilter, effectRan>>
  /\ screen' = BCAnalysisVisualizer(data', loading', error', view', seasonFilter')

\* onChange of the season filter selector.
setSeasonFilter(f) ==
  /\ screen.kind = "main"
  /\ f # seasonFilter
  /\ seasonFilter' = f
  /\ UNCHANGED <<tz, data, loading, error, view, effectRan>>
  /\ screen' = BCAnalysisVisualizer(data', loading', error', view', seasonFilter')

Next ==
  \/ \E stream \in RandomStreams : useEffectGenerated(stream)
  \/ \E err \in ThrownValues : useEffectCaught(err)
  \/ \E v \in Views : setView(v)
  \/ \E f \in SeasonFilters : setSeasonFilter(f)

Spec == Init /\ [][Next]_vars

(***************************************************************************)
(* The aggregation functions on their own (filteredData, the sorts, the    *)
(* MAC statistics, the summary): their argument ranges over every short    *)
(* sequence of records the generator can emit, in any order and with       *)
(* repetitions, empty included.  These are arguments of the functions, not *)
(* datasets the mounted component holds (that is always the 103 records of *)
(* Spec); properties stated here hold for all arguments, and a behaviour   *)
(* of the component is only ever exhibited under Spec.                     *)
(***************************************************************************)
AggIndices == {0, 40, 80}

AggStreams == {<<0, 0>>, <<1, 1>>}

AggRecords(zone) ==
  {DataPoint(zone, stream, i) : stream \in AggStreams, i \in AggIndices}

AggDatasets(zone) ==
  UNION {[1 .. n -> AggRecords(zone)] : n \in 0 .. MaxLen}

InitAgg ==
  /\ tz \in TimeZones
  /\ data \in AggDatasets(tz)
  /\ loading = FALSE
  /\ error = Null
  /\ view = "scatter"
  /\ seasonFilter = "all"
  /\ effectRan = TRUE
  /\ screen = BCAnalysisVisualizer(data, loading, error, view, seasonFilter)

NextAgg ==
  \/ \E v \in Views : setView(v)
  \/ \E f \in SeasonFilters : setSeasonFilter(f)

SpecAgg == InitAgg /\ [][NextAgg]_vars

(***************************************************************************)
(* Properties.                                                             *)
(***************************************************************************)
SeasonSet == {seasons[k] : k \in DOMAIN seasons}

\* The dataset was generated and stored, and no error was recorded.
Loaded == ~loading /\ error.isNull /\ effectRan

\* The generation attempt threw: an error was recorded and the dataset is empty.
Failed == ~loading /\ ~error.isNull /\ data = <<>>

\* The positions of the records of d that carry season s.
Carrying(d, s) == {i \in DOMAIN d : d[i].season = s}

\* The place a stable ascending sort by timestamp gives to element i of arr.
StableRank(arr, i) ==
  Cardinality({j \in DOMAIN arr :
                 \/ arr[j].timestamp < arr[i].timestamp
                 \/ (arr[j].timestamp = arr[i].timestamp /\ j <= i)})

\* C1: the filtered sequence equals the dataset when the filter is 'all';
\* otherwise it holds exactly the records whose season equals the filter, in
\* their original relative order.  When every record carries one of the three
\* seasons, the lengths of the three single-season filtered sequences add up to
\* the length of the dataset.
C1_FilterContract ==
  screen.kind = "main" =>
    LET fd  == screen.filteredData
        idx == Carrying(data, seasonFilter)
    IN  /\ seasonFilter = "all" => fd = data
        /\ seasonFilter # "all" =>
             /\ Len(fd) = Cardinality(idx)
             /\ \A i \in idx : fd[Cardinality({j \in idx : j <= i})] = data[i]
        /\ (\A i \in DOMAIN data : data[i].season \in SeasonSet) =>
             Len(filteredData(data, seasons[1])) + Len(filteredData(data, seasons[2]))
               + Len(filteredData(data, seasons[3])) = Len(data)

\* C1 witness: a single-season filter that keeps at least two records and drops
\* a record lying between two kept ones.
C1_Witness ==
  /\ screen.kind = "main"
  /\ seasonFilter # "all"
  /\ Len(screen.filteredData) >= 2
  /\ \E i, j, k \in DOMAIN data :
       /\ i < j /\ j < k
       /\ data[i].season = seasonFilter
       /\ data[j].season # seasonFilter
       /\ data[k].season = seasonFilter

C3_DatasetFrame ==
  [][ /\ data' # data => (~effectRan /\ effectRan')
      /\ effectRan => (effectRan' /\ data' = data)
      /\ view' # view => (seasonFilter' = seasonFilter /\ data' = data)
      /\ seasonFilter' # seasonFilter => (view' = view /\ data' = data)
      /\ (Loaded /\ Loaded') => screen'.summary.total = screen.summary.total ]_vars

\* C3 witness: the generated dataset is in place after both selectors were changed
\* and a sorting view was rendered.
C3_Witness ==
  /\ Loaded
  /\ Len(data) = sampleSize
  /\ view = "mac"
  /\ seasonFilter = "Belg Rainy Season"
  /\ screen.chart.name = "mac"

\* C4: in every loaded state the summary panel's per-season count is the number
\* of records of that season in the whole dataset and its percentage is that
\* count over the whole dataset's length, whatever the filter and the view; only
\* the 'days in current selection' figure follows the filter.
C4_SummaryOverWholeDataset ==
  (Loaded /\ screen.kind = "main") =>
    /\ screen.summary.total = Len(data)
    /\ screen.summary.selected =
         Cardinality({i \in DOMAIN data :
                        seasonFilter = "all" \/ data[i].season = seasonFilter})
    /\ Len(screen.summary.distribution) = Len(seasons)
    /\ \A k \in DOMAIN seasons :
         LET e     == screen.summary.distribution[k]
             count == Cardinality(Carrying(data, seasons[k]))
         IN  /\ e.season = seasons[k]
             /\ e.count = count
             /\ e.percent.text = "decimal"
             /\ ~e.percent.negative
             /\ e.percent.scaled = (2 * count * 1000 + Len(data)) \div (2 * Len(data))

\* C4 witness: a loaded state whose filter selects only part of the dataset.
C4_Witness ==
  /\ Loaded
  /\ screen.kind = "main"
  /\ seasonFilter # "all"
  /\ screen.summary.selected > 0
  /\ screen.summary.selected < screen.summary.total

\* C5: the season table partitions the months 1..12, and every generated
\* record's season is the one season whose month list contains the record's
\* month; no generated record has an empty season.
C5_SeasonTable ==
  /\ \A m \in 1 .. 12 :
       Cardinality({k \in DOMAIN seasonMonths : includes(seasonMonths[k][2], m)}) = 1
  /\ \A k \in DOMAIN seasonMonths : \A j \in DOMAIN seasonMonths[k][2] :
       seasonMonths[k][2][j] \in 1 .. 12
  /\ \A i \in DOMAIN data :
       /\ data[i].season # ""
       /\ data[i].month \in 1 .. 12
       /\ \A k \in DOMAIN seasonMonths :
            includes(seasonMonths[k][2], data[i].month)
              <=> seasonMonths[k][1] = data[i].season

\* C5 witness: a generated dataset with records of all three seasons.
C5_Witness ==
  /\ Loaded
  /\ \A s \in SeasonSet : Carrying(data, s) # {}

\* C6: the generation step produces exactly 103 records; record i is dated
\* start date + 3*i days and its month is the month of that date; dates and
\* timestamps increase strictly; the first record is dated 2022-01-01 and the
\* last one 306 days later.
C6_DatesEveryThreeDays ==
  Loaded =>
    /\ Len(data) = 103
    /\ \A k \in DOMAIN data :
         /\ data[k].date = CivilFromDays(Day(startDate) + 3 * (k - 1))
         /\ data[k].month = data[k].date.month
    /\ \A k \in DOMAIN data : k > 1 =>
         /\ data[k - 1].timestamp < data[k].timestamp
         /\ DateParse(data[k - 1].date) < DateParse(data[k].date)
    /\ data[1].date = [year |-> 2022, month |-> 1, day |-> 1]
    /\ DateParse(data[Len(data)].date) = DateParse(data[1].date) + 306 * SecondsPerDay

\* C7: the per-season statistics of the MAC analysis hold an entry for a season
\* if and only if a record of the filtered sequence has that season; each
\* entry's count is the number of such records; the counts add up to the number
\* of records whose season is in the season table.
C7_SeasonalStats ==
  (screen.kind = "main" /\ view = "mac") =>
    LET fd      == screen.filteredData
        entries == screen.chart.seasonalMACs
    IN  /\ \A s \in SeasonSet :
             (\E k \in DOMAIN entries : entries[k].season = s)
               <=> Carrying(fd, s) # {}
        /\ \A k \in DOMAIN entries :
             /\ entries[k].season \in SeasonSet
             /\ entries[k].count = Cardinality(Carrying(fd, entries[k].season))
             /\ entries[k].count > 0
             /\ \A j \in DOMAIN entries : entries[j].season = entries[k].season => j = k
        /\ Cardinality({<<k, c>> \in (DOMAIN entries) \X (1 .. Len(fd)) :
                          c <= entries[k].count})
             = Cardinality({i \in DOMAIN fd : fd[i].season \in SeasonSet})

\* C7 witness: a MAC analysis of a non-empty sequence in which a season has no
\* record and is left out.
C7_Witness ==
  /\ screen.kind = "main"
  /\ view = "mac"
  /\ screen.filteredData # <<>>
  /\ Len(screen.chart.seasonalMACs) = 2

C9_StableSortOnCopy ==
  (screen.kind = "main" /\ view \in {"timeseries", "mac"}) =>
    LET fd     == filteredData(data, seasonFilter)
        sorted == screen.chart.data
    IN  /\ screen.filteredData = fd
        /\ Len(sorted) = Len(fd)
        /\ \A i \in DOMAIN fd :
             LET at == sorted[StableRank(fd, i)]
             IN  IF view = "timeseries"
                 THEN at = fd[i]
                 ELSE at = [date |-> fd[i].date, mac |-> fd[i].mac,
                            season |-> fd[i].season]
        /\ view = "timeseries" =>
             \A k \in DOMAIN sorted : k > 1 =>
               sorted[k - 1].timestamp <= sorted[k].timestamp

\* C9 witness: a MAC trend whose filtered sequence is out of order and holds two
\* different records with the same timestamp.
C9_Witness ==
  /\ screen.kind = "main"
  /\ view = "mac"
  /\ \E i, j \in DOMAIN screen.filteredData :
       /\ i < j
       /\ screen.filteredData[i].timestamp > screen.filteredData[j].timestamp
  /\ \E i, j \in DOMAIN screen.filteredData :
       /\ i < j
       /\ screen.filteredData[i].timestamp = screen.filteredData[j].timestamp
       /\ screen.filteredData[i].mac # screen.filteredData[j].mac

\* C10: for every generated record and every outcome of the random draws,
\* ecFTIR is strictly positive (at least 2 * 0.9 * 0.8 and below 10 * 0.9 * 1.2),
\* so mac = fabs / ecFTIR is finite and no division by zero; redBCc and fabs are
\* never negative.
C10_PositiveEcFTIR ==
  \A i \in DOMAIN data :
    /\ IsFinite(data[i].ecFTIR)
    /\ data[i].ecFTIR.n > 0
    /\ ~NumLess(data[i].ecFTIR, Num(144, 100))
    /\ NumLess(data[i].ecFTIR, Num(108, 10))
    /\ IsFinite(data[i].mac)
    /\ NumMul(data[i].mac, data[i].ecFTIR) = data[i].fabs
    /\ IsFinite(data[i].redBCc) /\ data[i].redBCc.n >= 0
    /\ IsFinite(data[i].fabs) /\ data[i].fabs.n >= 0

\* C10 witness: a generated record whose draws are all the smallest possible, so
\* ecFTIR takes its least value 1.44.
C10_Witness ==
  /\ Loaded
  /\ \E i \in DOMAIN data : data[i].ecFTIR = Num(144, 100)

====
